---- MODULE Spec2Model ----
(***************************************************************************)
(* lpshipit: summarise a user's Launchpad merge proposals, let the         *)
(* operator pick one (and the source and target branches), then check out  *)
(* the target branch and merge the source branch with --no-ff and the      *)
(* agreed commit message.  Model of src/lpshipit.py.                       *)
(*                                                                         *)
(* Python values: a str is a TLA+ string; an optional value (None or a     *)
(* value) is a sequence of length 0 or 1; a list is a sequence; a dict     *)
(* with fixed keys is a record.                                            *)
(***************************************************************************)
EXTENDS Naturals, Sequences, FiniteSets

\* ------------------------------------------------------------------ bounds

\* Longest list of raw proposals the wizard run is started with.
MaxMps == 2
\* Longest list of local branches of the repository.
MaxBranches == 2
\* Most button clicks of one run (a same-branch pick leaves its prompt up,
\* so the operator may click again without end).
MaxClicks == 3
\* Longest list of raw proposals handed to summarize_mps on its own.
MaxRaw == 2

\* ---------------------------------------------------------- python helpers

None == <<>>

Some(v) == <<v>>

\* Python truthiness of an optional str: None and '' are falsy.
Truthy(opt) == opt # None /\ opt[1] # ""

RECURSIVE Join(_, _)
\* sep.join(parts)
Join(sep, parts) ==
    IF parts = <<>> THEN ""
    ELSE IF Len(parts) = 1 THEN parts[1]
    ELSE parts[1] \o sep \o Join(sep, Tail(parts))

RECURSIVE Insert(_, _)
\* x put into the ascending list s before the first greater element.
Insert(x, s) ==
    IF s = <<>> THEN <<x>>
    ELSE IF x.key <= Head(s).key THEN <<x>> \o s
    ELSE <<Head(s)>> \o Insert(x, Tail(s))

\* Rank of the reviewer names of the model in Python's str ordering.
NameRank(n) ==
    CASE n = "alice" -> 1
      [] n = "bob" -> 2
      [] n = "carol" -> 3

RECURSIVE Sorted(_)
\* sorted(names): ascending, duplicates kept.
Sorted(names) ==
    IF names = <<>> THEN <<>>
    ELSE LET rest == Sorted(Tail(names))
             keyed == [i \in 1..Len(rest) |-> [key |-> NameRank(rest[i]), v |-> rest[i]]]
             ins == Insert([key |-> NameRank(Head(names)), v |-> Head(names)], keyed)
         IN [i \in 1..Len(ins) |-> ins[i].v]

\* ------------------------------------------------- _format_git_branch_name

RefsHeads == "refs/heads/"

StartsWith(s, prefix) ==
    Len(s) >= Len(prefix) /\ SubSeq(s, 1, Len(prefix)) = prefix

RECURSIVE format_git_branch_nameStripAll(_)
\* Mutant: the prefix removed as often as it repeats (an lstrip-like cut).
format_git_branch_nameStripAll(branch_name) ==
    IF StartsWith(branch_name, RefsHeads)
    THEN format_git_branch_nameStripAll(SubSeq(branch_name, Len(RefsHeads) + 1, Len(branch_name)))
    ELSE branch_name

format_git_branch_name(branch_name) ==
    IF StartsWith(branch_name, RefsHeads)
    THEN SubSeq(branch_name, Len(RefsHeads) + 1, Len(branch_name))
    ELSE branch_name

\* ------------------------------------------------------------ summarize_mps

\* A repository handle of a raw proposal: the attribute may be missing
\* ("absent"), None ("null") or an object with a display_name ("repo").
NoRepoAttr == [kind |-> "absent", display_name |-> ""]
NullRepo == [kind |-> "null", display_name |-> ""]
Repo(name) == [kind |-> "repo", display_name |-> name]

\* getattr(mp, 'source_git_repository', None), taken as a condition.
HasSourceGitRepository(mp) == mp.source_git_repository.kind = "repo"

RECURSIVE ReviewVoteParts(_)
\* The names appended to review_vote_parts, in vote order.
ReviewVoteParts(votes) ==
    IF votes = <<>> THEN <<>>
    ELSE (IF ~Head(votes).is_pending THEN <<Head(votes).reviewer>> ELSE <<>>)
         \o ReviewVoteParts(Tail(votes))

RECURSIVE ApprovalCountPendingToo(_)
\* Mutant: the approval test taken outside the "not vote.is_pending" block.
ApprovalCountPendingToo(votes) ==
    IF votes = <<>> THEN 0
    ELSE (IF Head(votes).vote = "Approve" THEN 1 ELSE 0)
         + ApprovalCountPendingToo(Tail(votes))

RECURSIVE ApprovalCount(_)
ApprovalCount(votes) ==
    IF votes = <<>> THEN 0
    ELSE (IF ~Head(votes).is_pending /\ Head(votes).vote = "Approve" THEN 1 ELSE 0)
         + ApprovalCount(Tail(votes))

\* Line boundaries str.splitlines() splits at, among the characters of the model.
LineBoundaries == {"\n", "\r", "\f"}

RECURSIVE FirstBreak(_, _)
\* Index of the first line boundary of s at or after i, 0 when there is none.
FirstBreak(s, i) ==
    IF i > Len(s) THEN 0
    ELSE IF SubSeq(s, i, i) \in LineBoundaries THEN i
    ELSE FirstBreak(s, i + 1)

\* s.splitlines()[0]: the text before the first line boundary; ''.splitlines()
\* is the empty list, so indexing it raises IndexError (ok = FALSE).
SplitlinesFirst(s) ==
    IF s = "" THEN [ok |-> FALSE, v |-> ""]
    ELSE LET b == FirstBreak(s, 1)
         IN [ok |-> TRUE, v |-> IF b = 0 THEN s ELSE SubSeq(s, 1, b - 1)]

Description(mp) == IF mp.description = None THEN "" ELSE mp.description[1]

ShortDescription(mp) ==
    IF mp.description = None THEN [ok |-> TRUE, v |-> ""]
    ELSE SplitlinesFirst(mp.description[1])

\* The dict appended to mp_content for one retained proposal.
Summary(mp) ==
    [author |-> mp.registrant,
     description |-> Description(mp),
     short_description |-> ShortDescription(mp).v,
     reviewers |-> Sorted(ReviewVoteParts(mp.votes)),
     approval_count |-> ApprovalCount(mp.votes),
     web |-> mp.web_link,
     target_branch |-> format_git_branch_name(mp.target_git_path),
     source_branch |-> format_git_branch_name(mp.source_git_path),
     target_repo |-> mp.target_git_repository.display_name,
     source_repo |-> mp.source_git_repository.display_name]

RECURSIVE summarize_mps(_)
\* [ok, v]: ok = FALSE when the loop raised (v is then the list built so far,
\* which the caller never receives).
summarize_mps(mps) ==
    IF mps = <<>> THEN [ok |-> TRUE, v |-> <<>>]
    ELSE LET mp == Head(mps)
         IN IF HasSourceGitRepository(mp)
            THEN IF ~ShortDescription(mp).ok
                 THEN [ok |-> FALSE, v |-> <<>>]
                 ELSE LET rest == summarize_mps(Tail(mps))
                      IN [ok |-> rest.ok,
                          v |-> IF rest.ok THEN <<Summary(mp)>> \o rest.v ELSE <<>>]
            ELSE summarize_mps(Tail(mps))

\* --------------------------------------------------------- build_commit_msg

\* Mutant: the two branch names filled into each other's place.
build_commit_msgSwapped(author, reviewers, source_branch, target_branch, commit_message, mp_web_link) ==
    "Merge " \o target_branch \o " into " \o source_branch
        \o " [a=" \o author \o "] [r=" \o reviewers \o "]\n\n"
        \o commit_message \o "\n\nMP: " \o mp_web_link

build_commit_msg(author, reviewers, source_branch, target_branch, commit_message, mp_web_link) ==
    "Merge " \o source_branch \o " into " \o target_branch
        \o " [a=" \o author \o "] [r=" \o reviewers \o "]\n\n"
        \o commit_message \o "\n\nMP: " \o mp_web_link

\* ------------------------------------------------------------------ inputs

\* Raw proposals the wizard run is started with.
MpFeature ==
    [source_git_repository |-> Repo("lp:widget"),
     target_git_repository |-> Repo("lp:widget"),
     source_git_path |-> "refs/heads/feature-x",
     target_git_path |-> "refs/heads/main",
     registrant |-> "carol",
     description |-> Some("Fix bug\nDetails"),
     votes |-> <<[is_pending |-> FALSE, reviewer |-> "bob", vote |-> "Approve"],
                 [is_pending |-> TRUE, reviewer |-> "alice", vote |-> "Approve"]>>,
     web_link |-> "https://lp/mp/1"]

MpHotfix ==
    [source_git_repository |-> Repo("lp:widget"),
     target_git_repository |-> Repo("lp:widget"),
     source_git_path |-> "hotfix",
     target_git_path |-> "refs/heads/main",
     registrant |-> "alice",
     description |-> None,
     votes |-> <<[is_pending |-> FALSE, reviewer |-> "carol", vote |-> "Approve"],
                 [is_pending |-> FALSE, reviewer |-> "bob", vote |-> "Disapprove"]>>,
     web_link |-> "https://lp/mp/2"]

MpBzr ==
    [source_git_repository |-> NullRepo,
     target_git_repository |-> NullRepo,
     source_git_path |-> "",
     target_git_path |-> "",
     registrant |-> "bob",
     description |-> Some("bzr branch"),
     votes |-> <<>>,
     web_link |-> "https://lp/mp/3"]

MpEmptyDescription ==
    [source_git_repository |-> Repo("lp:widget"),
     target_git_repository |-> Repo("lp:widget"),
     source_git_path |-> "refs/heads/feature-x",
     target_git_path |-> "refs/heads/main",
     registrant |-> "bob",
     description |-> Some(""),
     votes |-> <<>>,
     web_link |-> "https://lp/mp/4"]

WizardMps == {MpFeature, MpHotfix, MpBzr, MpEmptyDescription}

\* A raw proposal as the review service returns it.
RawMp(source_repo, source_path, description, votes, n) ==
    [source_git_repository |-> source_repo,
     target_git_repository |-> IF source_repo.kind = "repo" THEN Repo("lp:widget") ELSE source_repo,
     source_git_path |-> source_path,
     target_git_path |-> "refs/heads/main",
     registrant |-> "carol",
     description |-> description,
     votes |-> votes,
     web_link |-> "https://lp/mp/" \o n]

Vote(is_pending, reviewer, vote) == [is_pending |-> is_pending, reviewer |-> reviewer, vote |-> vote]

\* Raw proposals summarize_mps is called with on its own: git proposals with
\* and without votes, descriptions and the refs/heads/ prefix (once, twice,
\* cut short, on the source and on the target path), and proposals whose
\* source repository is None or missing.
RawMps ==
    {RawMp(Repo("lp:widget"), "refs/heads/feature-x", Some("Fix bug\nDetails"), <<Vote(FALSE, "bob", "Approve"), Vote(TRUE, "alice", "Approve")>>, "1"),
     RawMp(Repo("lp:widget"), "feature-x", None, <<Vote(FALSE, "carol", "Approve"), Vote(FALSE, "bob", "Disapprove"), Vote(FALSE, "bob", "Approve")>>, "2"),
     RawMp(Repo("lp:gadget"), "refs/tags/v1", Some("One line"), <<Vote(FALSE, "alice", "approve")>>, "3"),
     RawMp(Repo("lp:gadget"), "refs/heads/hotfix", Some("\nLeading break"), <<>>, "4"),
     RawMp(Repo("lp:widget"), "refs/heads/feature-x", Some(""), <<>>, "5"),
     RawMp(NullRepo, "", Some("bzr branch"), <<Vote(FALSE, "bob", "Approve")>>, "6"),
     RawMp(NoRepoAttr, "", None, <<>>, "7"),
     RawMp(NullRepo, "", Some(""), <<>>, "8"),
     [RawMp(Repo("lp:widget"), "refs/heads/refs/heads/nested", None, <<>>, "9") EXCEPT !.target_git_path = "main"],
     [RawMp(Repo("lp:widget"), "refs", None, <<>>, "10") EXCEPT !.target_git_path = "refs/tags/v1"]}

BranchNames == {"main", "feature-x", "hotfix"}

\* Values of --source-branch / --target-branch: not given, '' or a name.
FlagValues == {None, Some(""), Some("main"), Some("feature-x")}

SeqsUpTo(S, n) == UNION {[1..k -> S] : k \in 0..n}

Range(s) == {s[i] : i \in 1..Len(s)}

\* Lists of distinct branch names (repo.branches) of at most n branches.
BranchLists(n) == {s \in SeqsUpTo(BranchNames, n) : Cardinality(Range(s)) = Len(s)}

\* ------------------------------------------------------------------- state

VARIABLES
    mps,                \* the raw proposals getMergeProposals returns
    source_branch,      \* --source-branch (optional str)
    target_branch,      \* --target-branch (optional str)
    local_branches,     \* [branch.name for branch in repo.branches]
    checkedout_branch,  \* repo.active_branch at startup (None: detached HEAD)
    mp_summaries,       \* what summarize_mps returned (None: not yet, or it raised)
    head,               \* the branch the working tree is on now
    refs,               \* per local branch, the merge commits made on it
    pc,                 \* where the run is: start, loop, or how it ended
    widget,             \* loop.widget
    focus,              \* the position set_focus was called with, if any
    ua_chosen_mp,       \* user_args['chosen_mp'] of the buttons on screen
    ua_source_branch,   \* user_args['source_branch'] of the buttons on screen
    git_calls,          \* the checkout and merge commands issued, in order
    stdout,             \* what print() wrote
    merge_summary,      \* the text of the Merge Summary box
    error,              \* the exception that ended the run
    events,             \* the handlers invoked so far, in order
    clicks              \* prompt buttons clicked so far

inputs == <<mps, source_branch, target_branch, local_branches, checkedout_branch>>

vars == <<mps, source_branch, target_branch, local_branches, checkedout_branch, mp_summaries, head, refs, pc, widget, focus, ua_chosen_mp, ua_source_branch, git_calls, stdout, merge_summary, error, events, clicks>>

\* ------------------------------------------------------------ the mp box

Digit(n) == CASE n = 0 -> "0" [] n = 1 -> "1" [] n = 2 -> "2" [] n = 3 -> "3" [] n = 4 -> "4" [] n = 5 -> "5" [] n = 6 -> "6" [] n = 7 -> "7" [] n = 8 -> "8" [] n = 9 -> "9"

RECURSIVE Str(_)
\* str(n) of a natural number.
Str(n) == IF n < 10 THEN Digit(n) ELSE Str(n \div 10) \o Digit(n % 10)

\* The key of mp_options built for one summary.
MpLabel(mp) ==
    mp.source_repo \o "/" \o mp.source_branch
        \o "\n->" \o mp.target_repo \o "/" \o mp.target_branch
        \o "\n    " \o mp.short_description
        \o "\n    " \o Str(mp.approval_count) \o " approvals (" \o Join(",", mp.reviewers) \o ")"
        \o "\n    " \o mp.web

\* d[key] = value on an insertion-ordered dict held as a list of items.
DictSet(d, key, value) ==
    IF \E i \in 1..Len(d) : d[i].key = key
    THEN [i \in 1..Len(d) |-> IF d[i].key = key THEN [key |-> key, value |-> value] ELSE d[i]]
    ELSE Append(d, [key |-> key, value |-> value])

RECURSIVE MpOptionsFrom(_, _)
MpOptionsFrom(d, summaries) ==
    IF summaries = <<>> THEN d
    ELSE MpOptionsFrom(DictSet(d, MpLabel(Head(summaries)), Head(summaries)), Tail(summaries))

\* The dict comprehension {label: mp for mp in mp_summaries}.
MpOptions(summaries) == MpOptionsFrom(<<>>, summaries)

\* mp_options of this run, once the proposals are summarised.
mp_options == MpOptions(mp_summaries[1])

\* Mutant: the proposal box built whatever the list holds.
HasProposalsAlways(summaries) == TRUE

\* "if mp_summaries:"
HasProposals(summaries) == summaries # <<>>

NoMpsMessage == "You have no Merge Proposals in either 'Needs review' or 'Approved' state"

\* ------------------------------------------------------ the branch boxes

RECURSIVE FocusLoopCheckedOutWins(_, _, _, _)
\* Mutant: the "focus is None" test of the checked-out branch left out.
FocusLoopCheckedOutWins(branches, mp_branch, checkedout_name, st) ==
    IF branches = <<>> THEN st.focus
    ELSE LET local_branch == Head(branches)
             focus_counter == st.focus_counter + 1
             f1 == IF local_branch = mp_branch THEN Some(focus_counter) ELSE st.focus
             f2 == IF local_branch = checkedout_name THEN Some(focus_counter) ELSE f1
         IN FocusLoopCheckedOutWins(Tail(branches), mp_branch, checkedout_name, [focus_counter |-> focus_counter, focus |-> f2])

RECURSIVE FocusLoop(_, _, _, _)
\* The focus a branch box is built with: one pass over local_branches,
\* st = [focus_counter, focus].
FocusLoop(branches, mp_branch, checkedout_name, st) ==
    IF branches = <<>> THEN st.focus
    ELSE LET local_branch == Head(branches)
             focus_counter == st.focus_counter + 1
             f1 == IF local_branch = mp_branch THEN Some(focus_counter) ELSE st.focus
             f2 == IF local_branch = checkedout_name /\ f1 = None THEN Some(focus_counter) ELSE f1
         IN FocusLoop(Tail(branches), mp_branch, checkedout_name, [focus_counter |-> focus_counter, focus |-> f2])

\* focus_counter = 1; focus = None; the loop; "if focus:" (0 is falsy).
BoxFocus(branches, mp_branch, checkedout_name) ==
    LET f == FocusLoop(branches, mp_branch, checkedout_name, [focus_counter |-> 1, focus |-> None])
    IN IF f # None /\ f[1] # 0 THEN f ELSE None

\* The list walker of a box: a title, a divider, then one button per entry
\* (list walker positions count from 0; this sequence counts from 1).
ListWalker(title, labels) ==
    <<[kind |-> "Text", label |-> title], [kind |-> "Divider", label |-> ""]>>
        \o [i \in 1..Len(labels) |-> [kind |-> "Button", label |-> labels[i]]]

\* What loop.widget shows.
Shown ==
    CASE widget = "mp_box" ->
           ListWalker("Merge Proposal to Merge", [i \in 1..Len(mp_options) |-> mp_options[i].key])
      [] widget = "source_box" -> ListWalker("Source Branch", local_branches)
      [] widget = "target_box" -> ListWalker("Target Branch", local_branches)
      [] widget = "summary_box" ->
           <<[kind |-> "Text", label |-> "Merge Summary"], [kind |-> "Divider", label |-> ""],
             [kind |-> "Text", label |-> merge_summary[1]], [kind |-> "Divider", label |-> ""],
             [kind |-> "Button", label |-> "Exit"]>>
      [] OTHER -> <<>>

\* --------------------------------------------------------------- the git

CheckoutCall(branch) == [cmd |-> "checkout", branch |-> branch, no_ff |-> FALSE, message |-> ""]

\* ["git", "merge", "--no-ff", source_branch, "-m", commit_message]
MergeCall(branch, message) == [cmd |-> "merge", branch |-> branch, no_ff |-> TRUE, message |-> message]

MergeSummaryText(source, target) ==
    source \o " has been merged in to " \o target \o " \nChanges have _NOT_ been pushed"

\* What checking out `target` and merging can come to: repo.branches[target]
\* raises IndexError for a name that is no local branch; the checkout and
\* the merge each succeed or fail as git decides; a successful merge makes a
\* merge commit unless the source is already merged.
GitOutcomes(target) ==
    IF target \in Range(local_branches)
    THEN {"checkout_failed", "merge_failed", "merged", "up_to_date"}
    ELSE {"no_such_branch"}

\* Mutant: the guard of line 145 left out.
BranchesDifferAlways(source, target) == TRUE

\* target_branch != source_branch
BranchesDiffer(source, target) == target # source

\* "if not source_branch:" / "if not target_branch:"
PromptForSource(source) == ~Truthy(source)

\* Mutant: the target prompt shown although --target-branch was given.
PromptForTargetAlways(target) == TRUE

PromptForTarget(target) == ~Truthy(target)

\* One handler invocation: the button it was called with ("None" when the
\* code calls it itself), its positional argument and, for
\* target_branch_chosen, the source branch of its user_args.
Event(handler, button, arg, source) == [handler |-> handler, button |-> button, arg |-> arg, source |-> source]

\* ---------------------------------------------------------------- handlers

\* Mutant: the merge issued before the checkout.
CallsIssuedMergeFirst(outcome, source, target, message) ==
    CASE outcome = "no_such_branch" -> <<>>
      [] outcome = "checkout_failed" -> <<CheckoutCall(target)>>
      [] OTHER -> <<MergeCall(source, message), CheckoutCall(target)>>

\* Mutant: the merge attempted although the checkout failed.
CallsIssuedDespiteFailure(outcome, source, target, message) ==
    CASE outcome = "no_such_branch" -> <<>>
      [] OTHER -> <<CheckoutCall(target), MergeCall(source, message)>>

\* The commands issued by lines 157-161 for each way they can end.
CallsIssued(outcome, source, target, message) ==
    CASE outcome = "no_such_branch" -> <<>>
      [] outcome = "checkout_failed" -> <<CheckoutCall(target)>>
      [] OTHER -> <<CheckoutCall(target), MergeCall(source, message)>>

\* Mutant: the box on screen left up after the merge.
WidgetAfterMergeKept(w) == w

\* Mutant: the proposal box put back up after the merge.
WidgetAfterMergeProposals(w) == "mp_box"

\* loop.widget after a merge that did not raise.
WidgetAfterMerge(w) == "summary_box"

\* Mutant: the source branch checked out instead of the target.
CheckedOutSource(outcome, source, target) ==
    IF outcome \in {"merge_failed", "merged", "up_to_date"} THEN Some(source) ELSE head

\* The branch the working tree is on after repo.branches[target].checkout():
\* the target once the checkout succeeded, whatever the merge does after it.
CheckedOut(outcome, source, target) ==
    IF outcome \in {"merge_failed", "merged", "up_to_date"} THEN Some(target) ELSE head

\* The branch refs after "git merge --no-ff source -m message" on the target:
\* a merge commit on the target when it merged, no change otherwise.
Merged(outcome, source, target, message) ==
    IF outcome = "merged"
    THEN [refs EXCEPT ![target] = Append(@, [source |-> source, message |-> message])]
    ELSE refs

\* The exception lines 157-161 raise, if any.
Raised(outcome) ==
    CASE outcome = "no_such_branch" -> Some("IndexError")
      [] outcome = "checkout_failed" -> Some("GitCommandError: checkout")
      [] outcome = "merge_failed" -> Some("GitCommandError: merge")
      [] OTHER -> None

\* Lines 157-187: checkout, merge, then the Merge Summary box; an exception
\* of either command leaves the handler at once and ends loop.run().
CheckoutAndMerge(outcome, source, target, message) ==
    /\ git_calls' = git_calls \o CallsIssued(outcome, source, target, message)
    /\ head' = CheckedOut(outcome, source, target)
    /\ refs' = Merged(outcome, source, target, message)
    /\ IF Raised(outcome) # None
       THEN /\ pc' = "raised"
            /\ error' = Raised(outcome)
            /\ UNCHANGED <<widget, focus, merge_summary>>
       ELSE /\ merge_summary' = Some(MergeSummaryText(source, target))
            /\ widget' = WidgetAfterMerge(widget)
            /\ focus' = None
            /\ UNCHANGED <<pc, error>>

target_branch_chosen(source, chosen_mp, target, button, ev) ==
    /\ events' = Append(ev, Event("target_branch_chosen", button, target, source))
    /\ UNCHANGED <<ua_chosen_mp, ua_source_branch, stdout>>
    /\ IF BranchesDiffer(source, target)
       THEN LET commit_message ==
                    build_commit_msg(chosen_mp.author, Join(",", chosen_mp.reviewers), source, target, chosen_mp.description, chosen_mp.web)
            IN \E outcome \in GitOutcomes(target) : CheckoutAndMerge(outcome, source, target, commit_message)
       ELSE UNCHANGED <<head, refs, git_calls, pc, widget, focus, merge_summary, error>>

source_branch_chosen(chosen_mp, target, chosen_source_branch, button, ev) ==
    LET ev1 == Append(ev, Event("source_branch_chosen", button, chosen_source_branch, ""))
    IN IF PromptForTarget(target)
       THEN /\ widget' = "target_box"
            /\ focus' = BoxFocus(local_branches, chosen_mp.target_branch, checkedout_branch[1])
            /\ ua_chosen_mp' = Some(chosen_mp)
            /\ ua_source_branch' = Some(chosen_source_branch)
            /\ events' = ev1
            /\ UNCHANGED <<head, refs, git_calls, pc, stdout, merge_summary, error>>
       ELSE target_branch_chosen(chosen_source_branch, chosen_mp, target[1], "None", ev1)

mp_chosen(chosen_mp, button, ev) ==
    LET ev1 == Append(ev, Event("mp_chosen", button, chosen_mp.web, ""))
    IN IF PromptForSource(source_branch)
       THEN /\ widget' = "source_box"
            /\ focus' = BoxFocus(local_branches, chosen_mp.source_branch, checkedout_branch[1])
            /\ ua_chosen_mp' = Some(chosen_mp)
            /\ events' = ev1
            /\ UNCHANGED <<ua_source_branch, head, refs, git_calls, pc, stdout, merge_summary, error>>
       ELSE source_branch_chosen(chosen_mp, target_branch, source_branch[1], "None", ev1)

\* ----------------------------------------------------------------- actions

Init ==
    /\ mps \in SeqsUpTo(WizardMps, MaxMps)
    /\ source_branch \in FlagValues
    /\ target_branch \in FlagValues
    /\ local_branches \in BranchLists(MaxBranches)
    /\ checkedout_branch \in {None} \cup {Some(b) : b \in BranchNames}
    /\ mp_summaries = None
    /\ head = checkedout_branch
    /\ refs = [b \in Range(local_branches) |-> <<>>]
    /\ pc = "start"
    /\ widget = "none"
    /\ focus = None
    /\ ua_chosen_mp = None
    /\ ua_source_branch = None
    /\ git_calls = <<>>
    /\ stdout = <<>>
    /\ merge_summary = None
    /\ error = None
    /\ events = <<>>
    /\ clicks = 0

\* lpshipit() up to loop.run(): repo.active_branch raises TypeError on a
\* detached HEAD; then the proposals are summarised and either the proposal
\* box is shown or the "no proposals" message is printed.
\* What lpshipit leaves alone until a button is clicked.
untouched == <<head, refs, focus, ua_chosen_mp, ua_source_branch, git_calls, merge_summary, events>>

\* Mutant: with both branches given and different, the merge of the first
\* proposal run at once, before any proposal is picked.
RunLoopMergeAtOnce(summaries) ==
    IF Truthy(source_branch) /\ Truthy(target_branch) /\ source_branch # target_branch
    THEN \E outcome \in GitOutcomes(target_branch[1]) :
             LET message == build_commit_msg(summaries[1].author, Join(",", summaries[1].reviewers), source_branch[1], target_branch[1], summaries[1].description, summaries[1].web)
             IN /\ git_calls' = git_calls \o CallsIssued(outcome, source_branch[1], target_branch[1], message)
                /\ head' = CheckedOut(outcome, source_branch[1], target_branch[1])
                /\ refs' = Merged(outcome, source_branch[1], target_branch[1], message)
                /\ error' = Raised(outcome)
                /\ pc' = IF Raised(outcome) # None THEN "raised" ELSE "loop"
                /\ widget' = IF Raised(outcome) # None THEN "mp_box" ELSE "summary_box"
                /\ merge_summary' = IF Raised(outcome) # None THEN None ELSE Some(MergeSummaryText(source_branch[1], target_branch[1]))
                /\ UNCHANGED <<focus, ua_chosen_mp, ua_source_branch, events, stdout>>
    ELSE /\ pc' = "loop"
         /\ widget' = "mp_box"
         /\ UNCHANGED <<stdout, error, untouched>>

\* Lines 252-265: the proposal box is put up and loop.run() waits for input;
\* no handler runs before a button is clicked.
RunLoop(summaries) ==
    /\ pc' = "loop"
    /\ widget' = "mp_box"
    /\ UNCHANGED <<stdout, error, untouched>>

Lpshipit ==
    /\ pc = "start"
    /\ UNCHANGED <<inputs, clicks>>
    /\ IF checkedout_branch = None
       THEN /\ pc' = "raised"
            /\ error' = Some("TypeError")
            /\ UNCHANGED <<mp_summaries, widget, stdout, untouched>>
       ELSE LET summarized == summarize_mps(mps)
            IN IF ~summarized.ok
               THEN /\ pc' = "raised"
                    /\ error' = Some("IndexError")
                    /\ UNCHANGED <<mp_summaries, widget, stdout, untouched>>
               ELSE /\ mp_summaries' = Some(summarized.v)
                    /\ IF HasProposals(summarized.v)
                       THEN RunLoop(summarized.v)
                       ELSE /\ pc' = "returned"
                            /\ stdout' = Append(stdout, NoMpsMessage)
                            /\ UNCHANGED <<widget, error, untouched>>

\* A click on the i-th button of the proposal box.
ClickProposal ==
    /\ pc = "loop"
    /\ widget = "mp_box"
    /\ clicks < MaxClicks
    /\ \E i \in 1..Len(mp_options) : mp_chosen(mp_options[i].value, "button", events)
    /\ clicks' = clicks + 1
    /\ UNCHANGED <<inputs, mp_summaries>>

\* A click on the i-th button of the source branch box.
ClickSourceBranch ==
    /\ pc = "loop"
    /\ widget = "source_box"
    /\ clicks < MaxClicks
    /\ \E i \in 1..Len(local_branches) :
           source_branch_chosen(ua_chosen_mp[1], target_branch, local_branches[i], "button", events)
    /\ clicks' = clicks + 1
    /\ UNCHANGED <<inputs, mp_summaries>>

\* A click on the i-th button of the target branch box.
ClickTargetBranch ==
    /\ pc = "loop"
    /\ widget = "target_box"
    /\ clicks < MaxClicks
    /\ \E i \in 1..Len(local_branches) :
           target_branch_chosen(ua_source_branch[1], ua_chosen_mp[1], local_branches[i], "button", events)
    /\ clicks' = clicks + 1
    /\ UNCHANGED <<inputs, mp_summaries>>

\* 'q' or 'Q' at any box: urwid_exit_on_q raises ExitMainLoop.
PressQ ==
    /\ pc = "loop"
    /\ pc' = "quit"
    /\ UNCHANGED <<inputs, mp_summaries, head, refs, widget, focus, ua_chosen_mp, ua_source_branch, git_calls, stdout, merge_summary, error, events, clicks>>

\* The Exit button of the Merge Summary box: urwid_exit_program.
ClickExit ==
    /\ pc = "loop"
    /\ widget = "summary_box"
    /\ pc' = "exit_button"
    /\ UNCHANGED <<inputs, mp_summaries, head, refs, widget, focus, ua_chosen_mp, ua_source_branch, git_calls, stdout, merge_summary, error, events, clicks>>

Next ==
    \/ Lpshipit
    \/ ClickProposal
    \/ ClickSourceBranch
    \/ ClickTargetBranch
    \/ PressQ
    \/ ClickExit

Spec == Init /\ [][Next]_vars

\* ------------------------------------------------- summarize_mps on its own

InitSummarize ==
    /\ mps \in SeqsUpTo(RawMps, MaxRaw)
    /\ source_branch = None
    /\ target_branch = None
    /\ local_branches = <<>>
    /\ checkedout_branch = None
    /\ mp_summaries = None
    /\ head = None
    /\ refs = <<>>
    /\ pc = "summarize"
    /\ widget = "none"
    /\ focus = None
    /\ ua_chosen_mp = None
    /\ ua_source_branch = None
    /\ git_calls = <<>>
    /\ stdout = <<>>
    /\ merge_summary = None
    /\ error = None
    /\ events = <<>>
    /\ clicks = 0

\* mp_summaries = summarize_mps(mps): it returns the list or raises.
SummarizeMps ==
    /\ pc = "summarize"
    /\ LET summarized == summarize_mps(mps)
       IN IF summarized.ok
          THEN /\ mp_summaries' = Some(summarized.v)
               /\ pc' = "summarized"
               /\ UNCHANGED error
          ELSE /\ pc' = "raised"
               /\ error' = Some("IndexError")
               /\ UNCHANGED mp_summaries
    /\ UNCHANGED <<inputs, head, refs, widget, focus, ua_chosen_mp, ua_source_branch, git_calls, stdout, merge_summary, events, clicks>>

NextSummarize == SummarizeMps

SpecSummarize == InitSummarize /\ [][NextSummarize]_vars

\* ------------------------------------------------------------------ claims

Last(s) == s[Len(s)]

CallsOf(cmd) == SelectSeq(git_calls, LAMBDA c : c.cmd = cmd)

\* The handler invoked last was target_branch_chosen, with equal branches.
ResolvedSame(ev) ==
    /\ ev # <<>>
    /\ Last(ev).handler = "target_branch_chosen"
    /\ Last(ev).arg = Last(ev).source

\* C1: a step that resolves the source and the target branch to the same name
\* (target_branch_chosen called with target = source, from a flag or from a
\* click) issues no checkout and no merge and leaves the repository alone.
C1_SameBranchGuard ==
    [][(events' # events /\ ResolvedSame(events'))
          => (git_calls' = git_calls /\ head' = head /\ refs' = refs)]_vars

\* C1 witness: both flags given and equal, a proposal picked, nothing issued.
C1_Witness ==
    /\ Truthy(source_branch)
    /\ source_branch = target_branch
    /\ ResolvedSame(events)
    /\ Last(events).button = "None"
    /\ git_calls = <<>>

\* The case of C2: one proposal, both flags given and distinct, proposal picked.
C2_Case ==
    /\ mp_summaries # None
    /\ Len(mp_summaries[1]) = 1
    /\ Truthy(source_branch)
    /\ Truthy(target_branch)
    /\ source_branch[1] # target_branch[1]
    /\ events # <<>>

\* What C2 says the run has then done.
C2_Done ==
    LET mp == mp_summaries[1][1]
        message == build_commit_msg(mp.author, Join(",", mp.reviewers), source_branch[1], target_branch[1], mp.description, mp.web)
    IN /\ Len(git_calls) = 2
       /\ git_calls[1].cmd = "checkout"
       /\ git_calls[1].branch = target_branch[1]
       /\ git_calls[2] = [cmd |-> "merge", branch |-> source_branch[1], no_ff |-> TRUE, message |-> message]
       /\ widget = "summary_box"
       /\ merge_summary = Some(source_branch[1] \o " has been merged in to " \o target_branch[1] \o " \nChanges have _NOT_ been pushed")

CheckoutFailed == error = Some("GitCommandError: checkout")

MergeFailed == error = Some("GitCommandError: merge")

\* C3: after a failed checkout there is no merge call; a failed checkout or
\* merge ends the run in that exception, the failing command is the last one
\* issued and none was issued twice (no retry), the target stays checked out
\* after a failed merge (no rollback), the Merge Summary is never shown, and
\* no step follows the failure.
C3_StopOnFailure ==
    /\ [](/\ CheckoutFailed => (CallsOf("merge") = <<>> /\ Last(git_calls).cmd = "checkout")
          /\ MergeFailed => (Last(git_calls).cmd = "merge" /\ head = Some(git_calls[1].branch))
          /\ (CheckoutFailed \/ MergeFailed) => pc = "raised"
          /\ pc = "raised" => /\ merge_summary = None
                              /\ widget # "summary_box"
                              /\ Len(CallsOf("checkout")) <= 1
                              /\ Len(CallsOf("merge")) <= 1)
    /\ [][pc # "raised"]_vars

\* C3 witness: the checkout of the target failed.
C3_Witness == CheckoutFailed /\ pc = "raised" /\ Len(git_calls) = 1

\* The repository as the run found it.
RepoUntouched == head = checkedout_branch /\ refs = [b \in Range(local_branches) |-> <<>>]

\* C4 as stated: a run that ended in a failure left the checked-out branch
\* and the branch refs as they were at its start.
C4_Original == pc = "raised" => RepoUntouched

\* C4: a run that ended in a failure left the branch refs as they were; the
\* checked-out branch is as it was too, except after a failed merge, where
\* the target branch (checked out before the merge) stays checked out.
C4_NoPartialState ==
    pc = "raised" =>
        /\ refs = [b \in Range(local_branches) |-> <<>>]
        /\ head = IF MergeFailed THEN Some(Last(events).arg) ELSE checkedout_branch

\* C4 witness: the merge failed with another branch checked out than at the start.
C4_Witness == pc = "raised" /\ MergeFailed /\ head # checkedout_branch

AtPrompt == widget \in {"mp_box", "source_box", "target_box"}

\* C5: a run the operator quit at a prompt issued no checkout and no merge
\* and left the repository as it was; and only a step that runs
\* target_branch_chosen (the merge step) issues a command or changes the
\* repository.
C5_QuitSideEffectFree ==
    /\ []((pc = "quit" /\ AtPrompt) => (git_calls = <<>> /\ RepoUntouched))
    /\ [][(git_calls' # git_calls \/ head' # head \/ refs' # refs)
            => (events' # events /\ Last(events').handler = "target_branch_chosen")]_vars

\* C5 witness: quit at the target branch prompt, after two picks.
C5_Witness == pc = "quit" /\ widget = "target_box" /\ clicks = 2 /\ git_calls = <<>>

Handlers(ev) == [i \in 1..Len(ev) |-> ev[i].handler]

IsPrefix(s, t) == Len(s) <= Len(t) /\ \A i \in 1..Len(s) : s[i] = t[i]

\* C6: the handlers run in the order proposal, source, target, each at most
\* once (no step is answered again, none is gone back to); a same-branch
\* resolution is final (it is the last handler of the run) and so is a merge
\* (commands are issued only by the one target_branch_chosen of the run).
C6_ForwardOnly ==
    /\ IsPrefix(Handlers(events), <<"mp_chosen", "source_branch_chosen", "target_branch_chosen">>)
    /\ \A i \in 1..Len(events) :
           (events[i].handler = "target_branch_chosen" /\ events[i].arg = events[i].source)
               => (i = Len(events) /\ git_calls = <<>>)
    /\ Len(CallsOf("merge")) <= 1

NonEmpty(opt) == opt # None /\ opt[1] # ""

\* Every invocation of handler h in the run was made with this button.
AllFrom(h, button) == \A i \in 1..Len(events) : events[i].handler = h => events[i].button = button

\* What C7 says of the two flags, source_given and target_given telling
\* which of them count as supplied.
C7_Override(source_given, target_given) ==
    /\ source_given =>
           /\ widget # "source_box"
           /\ AllFrom("source_branch_chosen", "None")
           /\ \A i \in 1..Len(git_calls) : git_calls[i].cmd = "merge" => git_calls[i].branch = source_branch[1]
    /\ target_given =>
           /\ widget # "target_box"
           /\ AllFrom("target_branch_chosen", "None")
           /\ \A i \in 1..Len(git_calls) : git_calls[i].cmd = "checkout" => git_calls[i].branch = target_branch[1]
    /\ (source_given /\ ~target_given /\ events # <<>>) =>
           /\ Len(events) = 2 => widget = "target_box"
           /\ AllFrom("target_branch_chosen", "button")
    /\ (~source_given /\ target_given /\ events # <<>>) =>
           /\ Len(events) = 1 => widget = "source_box"
           /\ AllFrom("source_branch_chosen", "button")

\* C7 as stated: a flag that was given, whatever its value, keeps its prompt
\* off the screen, and its value is the branch merged (checked out).
C7_Original == C7_Override(source_branch # None, target_branch # None)

\* C7: a flag given a non-empty value keeps its prompt off the screen, the
\* branch merged (checked out) is exactly that value, and the other step is
\* still prompted for when its flag is not given or empty.
C7_ExternalOverride == C7_Override(NonEmpty(source_branch), NonEmpty(target_branch))

\* C7 witness: --source-branch given, the target picked at its prompt, merged.
C7_Witness ==
    /\ NonEmpty(source_branch)
    /\ target_branch = None
    /\ widget = "summary_box"
    /\ Last(git_calls).branch = source_branch[1]

\* C8: once the summarised list is empty the run has printed the "no
\* proposals" message, shown no box, run no handler, issued no command, raised
\* nothing and returned; no step follows.
C8_EmptyState ==
    /\ [](mp_summaries = Some(<<>>) =>
            /\ pc = "returned"
            /\ stdout = <<"You have no Merge Proposals in either 'Needs review' or 'Approved' state">>
            /\ widget = "none"
            /\ events = <<>>
            /\ git_calls = <<>>
            /\ error = None
            /\ RepoUntouched)
    /\ [][pc # "returned"]_vars

\* C8 witness: every raw proposal was dropped as non-git.
C8_Witness == mps # <<>> /\ mp_summaries = Some(<<>>) /\ pc = "returned"

\* The label of the button at the focused list walker position (positions
\* count from 0), None when set_focus was not called.
Highlighted ==
    IF focus = None THEN None
    ELSE LET w == Shown[focus[1] + 1]
         IN IF w.kind = "Button" THEN Some(w.label) ELSE Some("not a button")

\* The rule of C9 for the proposal's branch b.
DefaultFocus(b) ==
    IF b \in Range(local_branches) THEN Some(b)
    ELSE IF checkedout_branch[1] \in Range(local_branches) THEN checkedout_branch
    ELSE None

\* C9: the source branch box highlights the proposal's source_branch if it
\* is a local branch, else the checked-out branch if that is one, else
\* nothing; the target branch box does the same with target_branch.
C9_DefaultFocus ==
    /\ widget = "source_box" => Highlighted = DefaultFocus(ua_chosen_mp[1].source_branch)
    /\ widget = "target_box" => Highlighted = DefaultFocus(ua_chosen_mp[1].target_branch)

\* C9 witness: the checked-out branch is listed before the proposal's source
\* branch, and the proposal's branch is the one highlighted.
C9_Witness ==
    /\ widget = "source_box"
    /\ Len(local_branches) = 2
    /\ local_branches[1] = checkedout_branch[1]
    /\ local_branches[2] = ua_chosen_mp[1].source_branch
    /\ Highlighted = Some(local_branches[2])

\* The proposals with a source repository handle, in input order.
WithSourceRepo(raw) == SelectSeq(raw, LAMBDA mp : mp.source_git_repository.kind = "repo")

\* C10: the call of summarize_mps returns, for every input, one summary per
\* proposal whose source repository handle is not null, in input order, and
\* none for the others.
C10_SummarizerFilter ==
    pc # "summarize" =>
        /\ pc = "summarized"
        /\ Len(mp_summaries[1]) = Len(WithSourceRepo(mps))
        /\ \A i \in 1..Len(WithSourceRepo(mps)) : mp_summaries[1][i].web = WithSourceRepo(mps)[i].web_link

\* The votes of the proposal the i-th summary was made from.
VotesOf(i) == WithSourceRepo(mps)[i].votes

\* C11: in every summary returned, approval_count is the number of votes that
\* are not pending and whose comment vote is exactly "Approve", and the
\* reviewers are names of voters whose vote is not pending: a pending vote
\* adds to neither, whatever its vote value.
C11_ApprovalCounting ==
    pc = "summarized" =>
        \A i \in 1..Len(mp_summaries[1]) :
            /\ mp_summaries[1][i].approval_count =
                   Cardinality({j \in 1..Len(VotesOf(i)) : ~VotesOf(i)[j].is_pending /\ VotesOf(i)[j].vote = "Approve"})
            /\ Range(mp_summaries[1][i].reviewers) =
                   {VotesOf(i)[j].reviewer : j \in {k \in 1..Len(VotesOf(i)) : ~VotesOf(i)[k].is_pending}}

\* C11 witness: a summary of a proposal with a pending "Approve" vote and a
\* completed "approve" (other case) elsewhere in the input; the pending vote
\* is not counted.
C11_Witness ==
    /\ pc = "summarized"
    /\ \E i \in 1..Len(mp_summaries[1]) :
           /\ \E j \in 1..Len(VotesOf(i)) : VotesOf(i)[j].is_pending /\ VotesOf(i)[j].vote = "Approve"
           /\ mp_summaries[1][i].approval_count = 1
    /\ \E i \in 1..Len(mp_summaries[1]) :
           /\ \E j \in 1..Len(VotesOf(i)) : ~VotesOf(i)[j].is_pending /\ VotesOf(i)[j].vote = "approve"
           /\ mp_summaries[1][i].approval_count = 0

\* C12: in every summary returned, the reviewers are the distinct names of
\* the voters whose vote is not pending, in strictly ascending order: each
\* name once, however many completed votes its reviewer has cast.
C12_ReviewersSortedSet ==
    pc = "summarized" =>
        \A i \in 1..Len(mp_summaries[1]) :
            LET reviewers == mp_summaries[1][i].reviewers IN
            /\ Range(reviewers) =
                   {VotesOf(i)[j].reviewer : j \in {k \in 1..Len(VotesOf(i)) : ~VotesOf(i)[k].is_pending}}
            /\ \A a, b \in 1..Len(reviewers) :
                   a < b => NameRank(reviewers[a]) < NameRank(reviewers[b])

\* The text of s before its first line break, all of s when it has none.
BeforeFirstBreak(s) ==
    LET breaks == {k \in 1..Len(s) : SubSeq(s, k, k) \in LineBoundaries} IN
    IF breaks = {} THEN s
    ELSE SubSeq(s, 1, (CHOOSE k \in breaks : \A m \in breaks : k <= m) - 1)

\* C13: summarizing always succeeds, an empty-string description included,
\* and every summary's short_description is "" for a null description and
\* otherwise the text before the description's first line break (the whole
\* description, possibly empty, when it has no break).
C13_ShortDescription ==
    pc # "summarize" =>
        /\ pc = "summarized"
        /\ \A i \in 1..Len(mp_summaries[1]) :
               LET description == WithSourceRepo(mps)[i].description IN
               mp_summaries[1][i].short_description =
                   (IF description = None THEN "" ELSE BeforeFirstBreak(description[1]))

\* The last event of handler h in the event history ev.
LastOf(ev, h) ==
    ev[CHOOSE k \in 1..Len(ev) : ev[k].handler = h /\ \A m \in (k+1)..Len(ev) : ev[m].handler # h]

\* The summary of the proposal the operator picked last.
PickedSummary(ev) ==
    CHOOSE m \in Range(mp_summaries[1]) : m.web = LastOf(ev, "mp_chosen").arg

\* The source branch the run resolved: the flag when given, else the pick.
ResolvedSource(ev) ==
    IF NonEmpty(source_branch) THEN source_branch[1] ELSE LastOf(ev, "source_branch_chosen").arg

\* The target branch the run resolved: the flag when given, else the pick.
ResolvedTarget(ev) ==
    IF NonEmpty(target_branch) THEN target_branch[1] ELSE LastOf(ev, "target_branch_chosen").arg

\* C14: every merge call carries exactly the message
\* "Merge {source} into {target} [a={author}] [r={reviewers}]\n\n{description}\n\nMP: {web_link}"
\* with the resolved source and target branches (flag value or the operator's
\* pick), the author, description and web link of the proposal the operator
\* picked, and that proposal's reviewers joined by a bare comma.
C14_CommitMessageBinding ==
    [][\A k \in (Len(git_calls) + 1)..Len(git_calls') :
           git_calls'[k].cmd = "merge" =>
               LET mp == PickedSummary(events') IN
               /\ LastOf(events', "mp_chosen").button = "button"
               /\ NonEmpty(source_branch) \/ LastOf(events', "source_branch_chosen").button = "button"
               /\ NonEmpty(target_branch) \/ LastOf(events', "target_branch_chosen").button = "button"
               /\ git_calls'[k].branch = ResolvedSource(events')
               /\ git_calls'[k].message =
                      "Merge " \o ResolvedSource(events') \o " into " \o ResolvedTarget(events')
                          \o " [a=" \o mp.author \o "] [r=" \o Join(",", mp.reviewers)
                          \o "]\n\n" \o mp.description \o "\n\nMP: " \o mp.web]_vars

\* C14 witness: the proposal recorded as hotfix -> main, with no description
\* and two reviewers, was picked and feature-x was merged into main: the
\* message names the resolved branches, joins the reviewers with a bare comma
\* and renders the empty description as an empty line.
C14_Witness ==
    /\ CallsOf("merge") # <<>>
    /\ PickedSummary(events).source_branch = "hotfix"
    /\ Last(git_calls).message =
           "Merge feature-x into main [a=alice] [r=bob,carol]\n\n\n\nMP: https://lp/mp/2"

\* The branch path without its leading "refs/heads/", if it has one.
Normalized(path) ==
    IF Len(path) >= 11 /\ SubSeq(path, 1, 11) = "refs/heads/"
    THEN SubSeq(path, 12, Len(path))
    ELSE path

\* C15: in every summary returned, source_branch and target_branch are the
\* proposal's raw source and target paths with one leading "refs/heads/"
\* removed when the path begins with it, and the raw path unchanged otherwise.
C15_BranchNormalization ==
    pc = "summarized" =>
        \A i \in 1..Len(mp_summaries[1]) :
            /\ mp_summaries[1][i].source_branch = Normalized(WithSourceRepo(mps)[i].source_git_path)
            /\ mp_summaries[1][i].target_branch = Normalized(WithSourceRepo(mps)[i].target_git_path)

\* C15 witness: summaries made of the claim's three paths and of a path that
\* repeats the prefix, with a target path that has the prefix and one that
\* has not.
C15_Witness ==
    /\ pc = "summarized"
    /\ \E i, j \in 1..Len(mp_summaries[1]) :
           /\ WithSourceRepo(mps)[i].source_git_path = "refs/heads/refs/heads/nested"
           /\ mp_summaries[1][i].source_branch = "refs/heads/nested"
           /\ WithSourceRepo(mps)[i].target_git_path = "main"
           /\ mp_summaries[1][i].target_branch = "main"
           /\ WithSourceRepo(mps)[j].source_git_path = "refs/heads/feature-x"
           /\ mp_summaries[1][j].source_branch = "feature-x"
           /\ WithSourceRepo(mps)[j].target_git_path = "refs/heads/main"
           /\ mp_summaries[1][j].target_branch = "main"

\* C16: whenever the proposal box is built, it has as many entries as there
\* are summaries, the i-th entry is labelled for and bound to the i-th
\* summary, and a click on an entry hands that summary to mp_chosen.
C16_ProposalStepCompleteness ==
    /\ (pc = "loop" =>
            /\ Len(mp_options) = Len(mp_summaries[1])
            /\ \A i \in 1..Len(mp_options) :
                   /\ mp_options[i].key = MpLabel(mp_summaries[1][i])
                   /\ mp_options[i].value = mp_summaries[1][i])
    /\ \A k \in 1..Len(events) :
           events[k].handler = "mp_chosen" =>
               \E i \in 1..Len(mp_summaries[1]) : mp_summaries[1][i].web = events[k].arg

\* C17: no run issues more than one merge command, and from a state in which
\* the merge command has been issued no step runs a handler, issues a
\* command or changes the repository: the only steps left end the run (the
\* Exit button or q).
C17_AtMostOneMerge ==
    /\ [](Len(CallsOf("merge")) <= 1)
    /\ [][CallsOf("merge") # <<>> =>
            /\ events' = events
            /\ git_calls' = git_calls
            /\ head' = head /\ refs' = refs
            /\ widget' = widget
            /\ pc' \in {"quit", "exit_button"}]_vars

\* C17 witness: a run with a repeated pick (a first target equal to the
\* source, then another target) that merged once and was left by Exit.
C17_Witness ==
    /\ pc = "exit_button"
    /\ Len(CallsOf("merge")) = 1
    /\ \E k \in 1..Len(events) :
           events[k].handler = "target_branch_chosen" /\ events[k].arg = events[k].source

\* The operator clicked a proposal button before anything else happened.
ProposalPicked ==
    /\ events # <<>>
    /\ events[1].handler = "mp_chosen"
    /\ events[1].button = "button"
    /\ clicks >= 1

\* C18: in every run, with or without the branch flags, a checkout or merge
\* command, a change of the repository, a branch prompt or the merge summary
\* is there only after the operator clicked a proposal: as long as no
\* proposal was clicked no command is issued, and the step that issues a
\* command is a click or follows one.
C18_NoMergeWithoutPick ==
    /\ []((git_calls # <<>> \/ ~RepoUntouched \/ merge_summary # None
              \/ widget \in {"source_box", "target_box", "summary_box"}) => ProposalPicked)
    /\ [][git_calls' # git_calls => (clicks' = clicks + 1 /\ ProposalPicked')]_vars

\* C18 witness: both flags given, and the checkout and the merge were made by
\* the chain of handlers the one click on a proposal started.
C18_Witness ==
    /\ NonEmpty(source_branch) /\ NonEmpty(target_branch)
    /\ clicks = 1
    /\ Handlers(events) = <<"mp_chosen", "source_branch_chosen", "target_branch_chosen">>
    /\ Len(CallsOf("checkout")) = 1 /\ Len(CallsOf("merge")) = 1

====
